---- MODULE Spec2Model ----
(***************************************************************************)
(* A model of the op-rs networking and attribute-validation core:          *)
(*   - NetworkDriver::start and its orchestration loop                     *)
(*       (crates/net/src/driver.rs)                                        *)
(*   - NetworkDriverBuilder (crates/net/src/builder.rs)                    *)
(*   - TrustedValidator and EngineApiValidator                             *)
(*       (crates/rollup/src/validator.rs)                                  *)
(*   - the block handler and the gossip driver behind them, which the      *)
(*       driver and the builder call                                       *)
(* The components share no state.  Each has its own specifications (Spec,  *)
(* LiveSpec, SpecLoop and SpecGossip for the driver, SpecBuilder,          *)
(* SpecTrusted, SpecEngine, and SpecValidators for either validator); a    *)
(* specification holds the variables of the other components at their      *)
(* idle values.                                                            *)
(***************************************************************************)
EXTENDS Integers, Sequences, FiniteSets, TLC

VARIABLES
    \* ---- NetworkDriver (driver.rs)
    pc,            \* "built" | "running" | "failed": where start() left the driver
    startResult,   \* what start() returned: "none" | "ok" | "discovery_err" | "listen_err"
    calls,         \* the calls start() made, in order
    discClosed,    \* the discovered-peer channel has been closed by its sender
    peerQ,         \* peers in the discovery channel (peer_recv)
    evQ,           \* swarm events ready for select_next_some
    sentPeers,     \* audit: every peer ever put on the discovery channel
    arrived,       \* audit: every swarm event ever made ready
    serviced,      \* audit: every dial / handle_event the loop performed
    lastOp,        \* the loop's latest iteration: the operation, its argument, whether
                   \* the dial succeeded, whether both inputs were ready at the select,
                   \* the handler's verdict on the event
    audit,         \* whether the audit logs are kept (they bound the run)
    driver,        \* the NetworkDriver that build() returned: the signer cell, the
                   \* block handler and its clone, the gossip and discovery drivers
    lastSigner,    \* the signer most recently written to the signer cell
    forwarded,     \* audit: every envelope placed on the unsafe-block channel
    \* ---- NetworkDriverBuilder (builder.rs)
    builder,       \* the builder's eight optional fields
    buildResult,   \* what the latest build() returned
    builtFrom,     \* the builder as it was when the latest build() was called
    nSetters,      \* with_* calls made so far
    nBuilds,       \* build() calls made so far
    \* ---- TrustedValidator (validator.rs)
    canyon,        \* TrustedValidator.canyon_activation
    rpc,           \* the trusted L2 RPC: its answer per block tag and per tx hash
    tvArg,         \* the L2AttributesWithParent under validation
    tvOut,         \* the result of the latest TrustedValidator call
    rpcLog,        \* the requests that call sent to the RPC, in order
    \* ---- EngineApiValidator (validator.rs)
    engEnv,        \* the engine API endpoint: token, transport, HTTP status, body
    engOut,        \* the result of the latest EngineApiValidator::validate
    httpSent       \* the number of HTTP requests that call sent

driverVars  == <<pc, startResult, calls, discClosed, peerQ, evQ, sentPeers,
                 arrived, serviced, lastOp, audit, driver, lastSigner, forwarded>>
builderVars == <<builder, buildResult, builtFrom, nSetters, nBuilds>>
trustedVars == <<canyon, rpc, tvArg, tvOut, rpcLog>>
engineVars  == <<engEnv, engOut, httpSent>>
vars == <<driverVars, builderVars, trustedVars, engineVars>>

\* Option<T>
None == [some |-> FALSE]
Some(x) == [some |-> TRUE, v |-> x]

\* ---------------------------------------------------------------- bounds
\* Capacity of the discovery channel and of the swarm's ready events.
MaxQueue == 2
\* Peers / events produced in an audited run.
MaxPeers == 3
MaxEvents == 3

\* with_* calls and build() calls one caller makes on a builder.
MaxSetterCalls == 4
MaxBuilds == 2

\* Header timestamps (and canyon activation timestamps) of the trusted chain.
MaxTime == 2
\* Transaction hashes listed by one block.
MaxTxs == 2
\* The width the model gives a u64 gas limit: a wider header value wraps.
GasBits == 4

\* ---------------------------------------------------------- BlockHandler
\* The block topic of a chain and a topic version:
\*   format!("/optimism/{}/{}/blocks", chain_id, version)
BlocksTopic(chain_id, version) ==
    "/optimism/" \o ToString(chain_id) \o "/" \o ToString(version) \o "/blocks"

\* BlockHandler::new(chain_id, unsafe_block_signer_recv): the handler holds the
\* chain ID, the receiving end of the signer cell and its three topics.
BlockHandlerNew(chain_id, recv) ==
    [chain_id |-> chain_id,
     unsafe_signer_recv |-> recv,
     blocks_v1_topic |-> BlocksTopic(chain_id, 0),
     blocks_v2_topic |-> BlocksTopic(chain_id, 1),
     blocks_v3_topic |-> BlocksTopic(chain_id, 2)]

\* handler.clone(): the clone's receiver refers to the cell of the original.
HandlerClone(h) == h

\* The version of the topic a message came on, if it is one of the handler's.
TopicVersion(h, topic) ==
    IF topic = h.blocks_v1_topic THEN Some(0)
    ELSE IF topic = h.blocks_v2_topic THEN Some(1)
    ELSE IF topic = h.blocks_v3_topic THEN Some(2)
    ELSE None

Rejected == [status |-> "reject", envelope |-> None]

\* BlockHandler::handle: the topic version, the decoding, the signer recovered
\* from the signature against the value the signer cell holds now, and on
\* success the envelope for the unsafe-block channel.
Handle(h, cells, msg) ==
    LET version == TopicVersion(h, msg.topic) IN
      IF ~version.some THEN Rejected
      ELSE IF ~msg.wellformed THEN Rejected
      ELSE IF msg.signer # cells[h.unsafe_signer_recv] THEN Rejected
      ELSE [status |-> "accept",
            envelope |-> Some([version |-> version.v, id |-> msg.id])]

\* A gossip message: its topic, the signer its signature recovers to, whether
\* its header and body decode, and the block it carries.
Message(topic, signer, wellformed, id) ==
    [kind |-> "message", topic |-> topic, signer |-> signer,
     wellformed |-> wellformed, id |-> id]

\* A swarm event that is no gossip message (a connection, a subscription).
OtherEvent ==
    [kind |-> "other", topic |-> "", signer |-> "", wellformed |-> TRUE, id |-> 0]

Peers == {"p1", "p2"}

\* The swarm events of the driver specification, for a driver of chain 10 whose
\* signer is 0xA: a block it accepts and one signed by another key.
Events == {Message(BlocksTopic(10, 0), "0xA", TRUE, 1),
           Message(BlocksTopic(10, 1), "0xB", TRUE, 2)}

\* The swarm events of the gossip and loop specifications: blocks on the three topics of
\* chain 10 signed by either key, a malformed one, one on another chain's
\* topic, and an event that is no message.
Messages == {Message(BlocksTopic(10, 0), "0xA", TRUE, 1),
             Message(BlocksTopic(10, 0), "0xA", TRUE, 2),
             Message(BlocksTopic(10, 0), "0xB", TRUE, 1),
             Message(BlocksTopic(10, 1), "0xA", TRUE, 1),
             Message(BlocksTopic(10, 2), "0xB", TRUE, 2),
             Message(BlocksTopic(10, 0), "0xA", FALSE, 1),
             Message(BlocksTopic(1, 0), "0xA", TRUE, 1),
             OtherEvent}

\* ------------------------------------------------------- NetworkDriver
\* DiscoveryDriver::start: binds the discovery transport and hands back the
\* peer receiver, or fails.  The outcome is the environment's.
DiscoveryStart(ok) == [call |-> "discovery.start", ok |-> ok]

\* GossipDriver::listen: opens the bind address, or fails.
GossipListen(ok) == [call |-> "gossip.listen", ok |-> ok]

SpawnLoop == [call |-> "tokio::spawn", ok |-> TRUE]

\* The body of NetworkDriver::start up to its return value:
\*   let mut peer_recv = self.discovery.start()?;
\*   self.gossip.listen()?;
\*   tokio::spawn(loop ...); Ok(())
StartSpawnsAnyway(dOk, lOk) ==
    [calls  |-> <<DiscoveryStart(dOk), GossipListen(lOk), SpawnLoop>>,
     result |-> IF ~dOk THEN "discovery_err" ELSE IF ~lOk THEN "listen_err" ELSE "ok",
     pc     |-> "running"]

StartFn(dOk, lOk) ==
    IF ~dOk
    THEN [calls |-> <<DiscoveryStart(FALSE)>>, result |-> "discovery_err", pc |-> "failed"]
    ELSE IF ~lOk
    THEN [calls  |-> <<DiscoveryStart(TRUE), GossipListen(FALSE)>>,
          result |-> "listen_err", pc |-> "failed"]
    ELSE [calls  |-> <<DiscoveryStart(TRUE), GossipListen(TRUE), SpawnLoop>>,
          result |-> "ok", pc |-> "running"]

Start ==
    /\ pc = "built"
    /\ \E dOk \in BOOLEAN, lOk \in BOOLEAN :
         LET r == StartFn(dOk, lOk) IN
           /\ calls' = r.calls
           /\ startResult' = r.result
           /\ pc' = r.pc
    /\ UNCHANGED <<discClosed, peerQ, evQ, sentPeers, arrived, serviced, lastOp, audit>>
    /\ UNCHANGED <<driver, lastSigner, forwarded>>
    /\ UNCHANGED <<builderVars, trustedVars, engineVars>>

\* The discovery task sends a peer on the channel whose receiver the loop holds.
PeerDiscovered ==
    /\ pc = "running"
    /\ ~discClosed
    /\ Len(peerQ) < MaxQueue
    /\ audit => Len(sentPeers) < MaxPeers
    /\ \E p \in Peers :
         /\ peerQ' = Append(peerQ, p)
         /\ sentPeers' = IF audit THEN Append(sentPeers, p) ELSE sentPeers
    /\ UNCHANGED <<pc, startResult, calls, discClosed, evQ, arrived, serviced, lastOp, audit>>
    /\ UNCHANGED <<driver, lastSigner, forwarded>>
    /\ UNCHANGED <<builderVars, trustedVars, engineVars>>

\* The discovery task ends and drops its sender: recv() yields the buffered
\* peers and then None.
DiscoveryClosed ==
    /\ pc = "running"
    /\ ~discClosed
    /\ discClosed' = TRUE
    /\ UNCHANGED <<pc, startResult, calls, peerQ, evQ, sentPeers, arrived, serviced,
                   lastOp, audit>>
    /\ UNCHANGED <<driver, lastSigner, forwarded>>
    /\ UNCHANGED <<builderVars, trustedVars, engineVars>>

\* The transport produces a swarm event.
SwarmProduces(pool) ==
    /\ pc = "running"
    /\ Len(evQ) < MaxQueue
    /\ audit => Len(arrived) < MaxEvents
    /\ \E e \in pool :
         /\ evQ' = Append(evQ, e)
         /\ arrived' = IF audit THEN Append(arrived, e) ELSE arrived
    /\ UNCHANGED <<pc, startResult, calls, discClosed, peerQ, sentPeers, serviced,
                   lastOp, audit>>
    /\ UNCHANGED <<driver, lastSigner, forwarded>>
    /\ UNCHANGED <<builderVars, trustedVars, engineVars>>

GossipArrives == SwarmProduces(Events)

MessageArrives == SwarmProduces(Messages)

\* The host sends a new signer on unsafe_block_signer_sender: the cell the
\* sender writes to holds the new value from then on.
SignerUpdate ==
    /\ pc \in {"built", "running"}
    /\ \E a \in {"0xA", "0xB"} :
         /\ driver' = [driver EXCEPT !.signer_cells[driver.unsafe_block_signer_sender] = a]
         /\ lastSigner' = a
    /\ UNCHANGED <<pc, startResult, calls, discClosed, peerQ, evQ, sentPeers, arrived,
                   serviced, lastOp, audit, forwarded>>
    /\ UNCHANGED <<builderVars, trustedVars, engineVars>>

\* peer_recv.recv() is ready when a peer is buffered or the channel is closed.
PeerReady == peerQ # <<>> \/ discClosed
\* select_next_some() is ready when the swarm has an event.
EventReady == evQ # <<>>

\* What recv() yields: the oldest buffered peer, or None once closed and empty.
Recv == IF peerQ # <<>> THEN Some(Head(peerQ)) ELSE None

\* GossipDriver::dial_opt: no dial for None; a dial otherwise, whose failure is
\* logged and not returned.
DialOpt(peer, log) ==
    IF peer.some THEN Append(log, [op |-> "dial_opt", arg |-> peer.v]) ELSE log

\* GossipDriver::handle_event: a gossip message goes to the driver's block
\* handler, whose verdict is reported to the swarm; any other event has none.
Outcome(event) ==
    IF event.kind = "message"
    THEN Handle(driver.gossip.handler, driver.signer_cells, event)
    ELSE [status |-> "none", envelope |-> None]

HandleEvent(event, log) ==
    Append(log, [op |-> "handle_event", arg |-> event, status |-> Outcome(event).status])

\* The handler sends the envelope of an accepted message on the unsafe-block
\* channel.
Forward(event, chan) ==
    IF Outcome(event).envelope.some
    THEN Append(chan, Outcome(event).envelope.v)
    ELSE chan

\* select! branch 1:  peer = peer_recv.recv() => self.gossip.dial_opt(peer).await
\* The branch that loses the select is dropped without having taken its item.
SelectPeerDropsEvent ==
    /\ pc = "running"
    /\ PeerReady
    /\ \E dialOk \in (IF Recv.some THEN BOOLEAN ELSE {TRUE}) :
         lastOp' = [op |-> "dial_opt", arg |-> Recv, ok |-> dialOk,
                    both |-> PeerReady /\ EventReady, status |-> "none"]
    /\ peerQ' = IF peerQ # <<>> THEN Tail(peerQ) ELSE peerQ
    /\ serviced' = IF audit THEN DialOpt(Recv, serviced) ELSE serviced
    /\ evQ' = IF EventReady THEN Tail(evQ) ELSE evQ
    /\ UNCHANGED <<pc, startResult, calls, discClosed, sentPeers, arrived, audit>>
    /\ UNCHANGED <<driver, lastSigner, forwarded>>
    /\ UNCHANGED <<builderVars, trustedVars, engineVars>>

\* The loop ending when recv() yields None.
SelectPeerStopsOnNone ==
    /\ pc = "running"
    /\ PeerReady
    /\ \E dialOk \in (IF Recv.some THEN BOOLEAN ELSE {TRUE}) :
         lastOp' = [op |-> "dial_opt", arg |-> Recv, ok |-> dialOk,
                    both |-> PeerReady /\ EventReady, status |-> "none"]
    /\ pc' = IF Recv.some THEN pc ELSE "stopped"
    /\ peerQ' = IF peerQ # <<>> THEN Tail(peerQ) ELSE peerQ
    /\ serviced' = IF audit THEN DialOpt(Recv, serviced) ELSE serviced
    /\ UNCHANGED <<startResult, calls, discClosed, evQ, sentPeers, arrived, audit>>
    /\ UNCHANGED <<driver, lastSigner, forwarded>>
    /\ UNCHANGED <<builderVars, trustedVars, engineVars>>

\* The loop ending on a dial that fails.
SelectPeerStopsOnFailedDial ==
    /\ pc = "running"
    /\ PeerReady
    /\ \E dialOk \in (IF Recv.some THEN BOOLEAN ELSE {TRUE}) :
         /\ lastOp' = [op |-> "dial_opt", arg |-> Recv, ok |-> dialOk,
                       both |-> PeerReady /\ EventReady, status |-> "none"]
         /\ pc' = IF dialOk THEN pc ELSE "stopped"
    /\ peerQ' = IF peerQ # <<>> THEN Tail(peerQ) ELSE peerQ
    /\ serviced' = IF audit THEN DialOpt(Recv, serviced) ELSE serviced
    /\ UNCHANGED <<startResult, calls, discClosed, evQ, sentPeers, arrived, audit>>
    /\ UNCHANGED <<driver, lastSigner, forwarded>>
    /\ UNCHANGED <<builderVars, trustedVars, engineVars>>

SelectPeer ==
    /\ pc = "running"
    /\ PeerReady
    /\ \E dialOk \in (IF Recv.some THEN BOOLEAN ELSE {TRUE}) :
         lastOp' = [op |-> "dial_opt", arg |-> Recv, ok |-> dialOk,
                    both |-> PeerReady /\ EventReady, status |-> "none"]
    /\ peerQ' = IF peerQ # <<>> THEN Tail(peerQ) ELSE peerQ
    /\ serviced' = IF audit THEN DialOpt(Recv, serviced) ELSE serviced
    /\ UNCHANGED <<pc, startResult, calls, discClosed, evQ, sentPeers, arrived, audit>>
    /\ UNCHANGED <<driver, lastSigner, forwarded>>
    /\ UNCHANGED <<builderVars, trustedVars, engineVars>>

\* select! branch 2:  event = self.gossip.select_next_some() => handle_event(event)
SelectEventBiased ==
    /\ pc = "running"
    /\ EventReady
    /\ ~PeerReady
    /\ lastOp' = [op |-> "handle_event", arg |-> Some(Head(evQ)), ok |-> TRUE,
                  both |-> PeerReady /\ EventReady,
                  status |-> Outcome(Head(evQ)).status]
    /\ evQ' = Tail(evQ)
    /\ serviced' = IF audit THEN HandleEvent(Head(evQ), serviced) ELSE serviced
    /\ UNCHANGED <<pc, startResult, calls, discClosed, peerQ, sentPeers, arrived, audit>>
    /\ forwarded' = IF audit THEN Forward(Head(evQ), forwarded) ELSE forwarded
    /\ UNCHANGED <<driver, lastSigner>>
    /\ UNCHANGED <<builderVars, trustedVars, engineVars>>

\* The loop handling the newest ready event instead of the oldest.
SelectEventTakesNewest ==
    /\ pc = "running"
    /\ EventReady
    /\ LET newest == evQ[Len(evQ)] IN
         /\ lastOp' = [op |-> "handle_event", arg |-> Some(newest), ok |-> TRUE,
                       both |-> PeerReady /\ EventReady,
                       status |-> Outcome(newest).status]
         /\ evQ' = SubSeq(evQ, 1, Len(evQ) - 1)
         /\ serviced' = IF audit THEN HandleEvent(newest, serviced) ELSE serviced
         /\ forwarded' = IF audit THEN Forward(newest, forwarded) ELSE forwarded
    /\ UNCHANGED <<pc, startResult, calls, discClosed, peerQ, sentPeers, arrived, audit>>
    /\ UNCHANGED <<driver, lastSigner>>
    /\ UNCHANGED <<builderVars, trustedVars, engineVars>>

SelectEvent ==
    /\ pc = "running"
    /\ EventReady
    /\ lastOp' = [op |-> "handle_event", arg |-> Some(Head(evQ)), ok |-> TRUE,
                  both |-> PeerReady /\ EventReady,
                  status |-> Outcome(Head(evQ)).status]
    /\ evQ' = Tail(evQ)
    /\ serviced' = IF audit THEN HandleEvent(Head(evQ), serviced) ELSE serviced
    /\ UNCHANGED <<pc, startResult, calls, discClosed, peerQ, sentPeers, arrived, audit>>
    /\ forwarded' = IF audit THEN Forward(Head(evQ), forwarded) ELSE forwarded
    /\ UNCHANGED <<driver, lastSigner>>
    /\ UNCHANGED <<builderVars, trustedVars, engineVars>>

\* ------------------------------------------------ NetworkDriverBuilder
ChainIds == {1, 10}
Addresses == {"0xA", "0xB"}
Sockets == {[family |-> "v4", ip |-> "127.0.0.1", port |-> 9099],
            [family |-> "v6", ip |-> "::1", port |-> 9099]}

\* NetworkDriverBuilder::default(): every field None.
NewBuilder ==
    [chain_id |-> None, unsafe_block_signer |-> None, socket |-> None,
     gossip_config |-> None, keypair |-> None, tcp_config |-> None,
     noise_config |-> None, yamux_config |-> None]

\* A builder with every required field set and no optional one.
NewBuilderAllSet ==
    [NewBuilder EXCEPT !.chain_id = Some(10), !.unsafe_block_signer = Some("0xA"),
                       !.socket = Some([family |-> "v4", ip |-> "127.0.0.1", port |-> 9099])]

\* The with_* methods: self.<field> = Some(value).
SetterValues ==
    [chain_id            |-> ChainIds,
     unsafe_block_signer |-> Addresses,
     socket              |-> Sockets,
     gossip_config       |-> {"custom_gossip"},
     keypair             |-> {"given_keypair"},
     tcp_config          |-> {"custom_tcp"},
     noise_config        |-> {"custom_noise"},
     yamux_config        |-> {"custom_yamux"}]

With(b, field, value) == [b EXCEPT ![field] = Some(value)]

\* Option::take / Option::unwrap_or
Take(b, field) == [b EXCEPT ![field] = None]
UnwrapOr(opt, default) == IF opt.some THEN opt.v ELSE default

\* NetworkAddress::try_from(SocketAddr): only an IPv4 socket is representable.
NetworkAddressTryFrom(sock) ==
    IF sock.family = "v4"
    THEN [ok |-> TRUE, addr |-> [ip |-> sock.ip, port |-> sock.port]]
    ELSE [ok |-> FALSE]

\* Multiaddr::from(NetworkAddress): /ip4/<ip>/tcp/<port>
MultiaddrFrom(addr) == <<[proto |-> "ip4", v |-> addr.ip], [proto |-> "tcp", v |-> addr.port]>>

Err(msg) == [ok |-> FALSE, err |-> msg]

\* The places a signer cell can occupy.  build creates one cell, "c0"; "c1" is
\* where a second cell would be, were the signer state ever duplicated.
CellIds == {"c0", "c1"}

\* tokio::sync::watch::channel(signer): one cell seeded with the signer, and a
\* sender and a receiver that both refer to it.
WatchChannel(signer) ==
    [sender |-> "c0", receiver |-> "c0", cells |-> [c \in CellIds |-> signer]]

\* The NetworkDriver a successful build returns, from the values build has
\* taken out of the builder: the signer cell seeded with the signer, the block
\* handler, the swarm behind the GossipDriver, the discovery driver.
BuiltDriverHandlerOwnCell(signer, chain_id, na, config, keypair, tcp, noise, yamux) ==
    LET ch == WatchChannel(signer)
        handler == BlockHandlerNew(chain_id, "c1")
    IN  [unsafe_block_signer_sender |-> ch.sender,
         signer_cells |-> ch.cells,
         gossip |->
           [addr |-> MultiaddrFrom(na),
            handler |-> handler,
            behaviour_handlers |-> <<HandlerClone(handler)>>,
            config |-> config,
            keypair |-> keypair,
            tcp |-> tcp, noise |-> noise, yamux |-> yamux],
         discovery |-> [chain_id |-> chain_id, addr |-> na]]

BuiltDriverCloneOwnCell(signer, chain_id, na, config, keypair, tcp, noise, yamux) ==
    LET ch == WatchChannel(signer)
        handler == BlockHandlerNew(chain_id, ch.receiver)
    IN  [unsafe_block_signer_sender |-> ch.sender,
         signer_cells |-> ch.cells,
         gossip |->
           [addr |-> MultiaddrFrom(na),
            handler |-> handler,
            behaviour_handlers |-> <<BlockHandlerNew(chain_id, "c1")>>,
            config |-> config,
            keypair |-> keypair,
            tcp |-> tcp, noise |-> noise, yamux |-> yamux],
         discovery |-> [chain_id |-> chain_id, addr |-> na]]

BuiltDriverDiscoveryUnscoped(signer, chain_id, na, config, keypair, tcp, noise, yamux) ==
    LET ch == WatchChannel(signer)
        handler == BlockHandlerNew(chain_id, ch.receiver)
    IN  [unsafe_block_signer_sender |-> ch.sender,
         signer_cells |-> ch.cells,
         gossip |->
           [addr |-> MultiaddrFrom(na),
            handler |-> handler,
            behaviour_handlers |-> <<HandlerClone(handler)>>,
            config |-> config,
            keypair |-> keypair,
            tcp |-> tcp, noise |-> noise, yamux |-> yamux],
         discovery |-> [chain_id |-> 0, addr |-> na]]

BuiltDriverHandlerOfMainnet(signer, chain_id, na, config, keypair, tcp, noise, yamux) ==
    LET ch == WatchChannel(signer)
        handler == BlockHandlerNew(10, ch.receiver)
    IN  [unsafe_block_signer_sender |-> ch.sender,
         signer_cells |-> ch.cells,
         gossip |->
           [addr |-> MultiaddrFrom(na),
            handler |-> handler,
            behaviour_handlers |-> <<HandlerClone(handler)>>,
            config |-> config,
            keypair |-> keypair,
            tcp |-> tcp, noise |-> noise, yamux |-> yamux],
         discovery |-> [chain_id |-> chain_id, addr |-> na]]

BuiltDriver(signer, chain_id, na, config, keypair, tcp, noise, yamux) ==
    LET ch == WatchChannel(signer)
        handler == BlockHandlerNew(chain_id, ch.receiver)
    IN  [unsafe_block_signer_sender |-> ch.sender,
         signer_cells |-> ch.cells,
         gossip |->
           [addr |-> MultiaddrFrom(na),
            handler |-> handler,
            behaviour_handlers |-> <<HandlerClone(handler)>>,
            config |-> config,
            keypair |-> keypair,
            tcp |-> tcp, noise |-> noise, yamux |-> yamux],
         discovery |-> [chain_id |-> chain_id, addr |-> na]]

\* NetworkDriverBuilder::build, statement by statement.  The result holds the
\* builder as the call leaves it and what the call returns.
BuildFnSocketMessageCopied(b) ==
    LET config == UnwrapOr(b.gossip_config, "default_gossip")
        b1 == Take(b, "gossip_config")
        noise == UnwrapOr(b1.noise_config, "noise_from_keypair")
        keypair == UnwrapOr(b1.keypair, "generated_secp256k1")
        tcp == UnwrapOr(b1.tcp_config, "default_tcp")
        yamux == UnwrapOr(b1.yamux_config, "default_yamux")
        b5 == Take(Take(Take(Take(b1, "noise_config"), "keypair"), "tcp_config"),
                   "yamux_config")
        b6 == Take(b5, "socket")
    IN  IF ~b.unsafe_block_signer.some
        THEN [builder |-> b1, result |-> Err("unsafe block signer not set")]
        ELSE IF ~b.chain_id.some
        THEN [builder |-> b1, result |-> Err("chain ID not set")]
        ELSE IF ~b.socket.some
        THEN [builder |-> b6, result |-> Err("chain ID not set")]
        ELSE LET na == NetworkAddressTryFrom(b.socket.v) IN
             IF ~na.ok
             THEN [builder |-> b6, result |-> Err("unsupported socket address")]
             ELSE [builder |-> b6,
                   result  |-> [ok |-> TRUE,
                                driver |-> BuiltDriver(b.unsafe_block_signer.v, b.chain_id.v,
                                                       na.addr, config, keypair, tcp,
                                                       noise, yamux)]]

\* build with the socket looked at before the signer and the chain ID.
BuildFnSocketCheckedFirst(b) ==
    LET config == UnwrapOr(b.gossip_config, "default_gossip")
        b1 == Take(b, "gossip_config")
        noise == UnwrapOr(b1.noise_config, "noise_from_keypair")
        keypair == UnwrapOr(b1.keypair, "generated_secp256k1")
        tcp == UnwrapOr(b1.tcp_config, "default_tcp")
        yamux == UnwrapOr(b1.yamux_config, "default_yamux")
        b5 == Take(Take(Take(Take(b1, "noise_config"), "keypair"), "tcp_config"),
                   "yamux_config")
        b6 == Take(b5, "socket")
    IN  IF ~b.socket.some
        THEN [builder |-> b6, result |-> Err("socket address not set")]
        ELSE IF ~b.unsafe_block_signer.some
        THEN [builder |-> b6, result |-> Err("unsafe block signer not set")]
        ELSE IF ~b.chain_id.some
        THEN [builder |-> b6, result |-> Err("chain ID not set")]
        ELSE LET na == NetworkAddressTryFrom(b.socket.v) IN
             IF ~na.ok
             THEN [builder |-> b6, result |-> Err("unsupported socket address")]
             ELSE [builder |-> b6,
                   result  |-> [ok |-> TRUE,
                                driver |-> BuiltDriver(b.unsafe_block_signer.v, b.chain_id.v,
                                                       na.addr, config, keypair, tcp,
                                                       noise, yamux)]]

BuildFn(b) ==
    LET \* let config = match self.gossip_config.take() { Some(cfg) => cfg, None => default }
        config == UnwrapOr(b.gossip_config, "default_gossip")
        b1 == Take(b, "gossip_config")
        \* noise_config.take(), keypair.take(), tcp_config.take(), yamux_config.take()
        noise == UnwrapOr(b1.noise_config, "noise_from_keypair")
        keypair == UnwrapOr(b1.keypair, "generated_secp256k1")
        tcp == UnwrapOr(b1.tcp_config, "default_tcp")
        yamux == UnwrapOr(b1.yamux_config, "default_yamux")
        b5 == Take(Take(Take(Take(b1, "noise_config"), "keypair"), "tcp_config"),
                   "yamux_config")
        \* self.socket.take()
        b6 == Take(b5, "socket")
    IN  IF ~b.unsafe_block_signer.some
        THEN [builder |-> b1, result |-> Err("unsafe block signer not set")]
        ELSE IF ~b.chain_id.some
        THEN [builder |-> b1, result |-> Err("chain ID not set")]
        ELSE IF ~b.socket.some
        THEN [builder |-> b6, result |-> Err("socket address not set")]
        ELSE LET na == NetworkAddressTryFrom(b.socket.v) IN
             IF ~na.ok
             THEN [builder |-> b6, result |-> Err("unsupported socket address")]
             ELSE [builder |-> b6,
                   result  |-> [ok |-> TRUE,
                                driver |-> BuiltDriver(b.unsafe_block_signer.v, b.chain_id.v,
                                                       na.addr, config, keypair, tcp,
                                                       noise, yamux)]]

\* builder.with_<field>(value)
CallWith ==
    /\ nSetters < MaxSetterCalls
    /\ \E field \in DOMAIN SetterValues : \E value \in SetterValues[field] :
         builder' = With(builder, field, value)
    /\ nSetters' = nSetters + 1
    /\ UNCHANGED <<buildResult, builtFrom, nBuilds>>
    /\ UNCHANGED <<driverVars, trustedVars, engineVars>>

\* builder.build()
CallBuild ==
    /\ nBuilds < MaxBuilds
    /\ LET r == BuildFn(builder) IN
         /\ builder' = r.builder
         /\ buildResult' = r.result
    /\ builtFrom' = builder
    /\ nBuilds' = nBuilds + 1
    /\ UNCHANGED nSetters
    /\ UNCHANGED <<driverVars, trustedVars, engineVars>>

\* ---------------------------------------------------- TrustedValidator
ParentNumbers == {0, 100}
TxHashes == {1, 2}

\* BlockNumberOrTag
NumTag(n) == [kind |-> "number", n |-> n]
LatestTag == [kind |-> "latest", n |-> 0]
Tags == {NumTag(n) : n \in ParentNumbers} \cup {NumTag(n + 1) : n \in ParentNumbers}
          \cup {LatestTag}

\* u128 as u64
U64Modulus == 2 ^ GasBits
AsU64(x) == x % U64Modulus

\* B256::default()
ZeroHash == 0

\* The raw RLP the RPC holds for a transaction hash.
RlpOf(h) == 10 + h

\* provider.get_block(tag, Hashes): an RPC error, Ok(None), or Ok(Some(block)).
RpcGetBlock(w, tag) == w.block[tag]
\* provider.raw_request("debug_getRawTransaction", [tx])
RpcRawTx(w, h) == w.raw[h]

GetBlockReq(tag) == [m |-> "eth_getBlockByNumber", tag |-> tag, hash |-> 0]
RawTxReq(h) == [m |-> "debug_getRawTransaction", tag |-> LatestTag, hash |-> h]

\* The loop of get_block asking once more for a transaction it failed to fetch.
RECURSIVE FetchTxsRetrying(_, _, _, _)
FetchTxsRetrying(w, hashes, txs, log) ==
    IF hashes = <<>> THEN [ok |-> TRUE, txs |-> txs, log |-> log]
    ELSE LET h == Head(hashes)
             r == RpcRawTx(w, h)
             log1 == Append(log, RawTxReq(h))
         IN  IF r.ok
             THEN FetchTxsRetrying(w, Tail(hashes), Append(txs, r.rlp), log1)
             ELSE [ok |-> FALSE, txs |-> txs, log |-> Append(log1, RawTxReq(h))]

\* The loop of get_block: one raw request per hash, in order; the first failure
\* ends it (bail!).  txs: fetched so far; log: requests sent so far.
RECURSIVE FetchTxs(_, _, _, _)
FetchTxs(w, hashes, txs, log) ==
    IF hashes = <<>> THEN [ok |-> TRUE, txs |-> txs, log |-> log]
    ELSE LET h == Head(hashes)
             r == RpcRawTx(w, h)
             log1 == Append(log, RawTxReq(h))
         IN  IF r.ok
             THEN FetchTxs(w, Tail(hashes), Append(txs, r.rlp), log1)
             ELSE [ok |-> FALSE, txs |-> txs, log |-> log1]

\* The same loop skipping a transaction it cannot fetch.
RECURSIVE FetchTxsSkipping(_, _, _, _)
FetchTxsSkipping(w, hashes, txs, log) ==
    IF hashes = <<>> THEN [ok |-> TRUE, txs |-> txs, log |-> log]
    ELSE LET h == Head(hashes)
             r == RpcRawTx(w, h)
             log1 == Append(log, RawTxReq(h))
         IN  IF r.ok
             THEN FetchTxsSkipping(w, Tail(hashes), Append(txs, r.rlp), log1)
             ELSE FetchTxsSkipping(w, Tail(hashes), txs, log1)

GetBlockTruncating(w, tag) ==
    LET resp == RpcGetBlock(w, tag)
        log0 == <<GetBlockReq(tag)>>
    IN  IF resp.kind = "err"
        THEN [ok |-> FALSE, err |-> "Failed to fetch block", log |-> log0]
        ELSE IF resp.kind = "not_found"
        THEN [ok |-> FALSE, err |-> "Block not found", log |-> log0]
        ELSE LET f == FetchTxsSkipping(w, resp.hashes, <<>>, log0) IN
             [ok |-> TRUE, header |-> resp.header, txs |-> f.txs, log |-> f.log]

\* TrustedValidator::get_block
GetBlock(w, tag) ==
    LET resp == RpcGetBlock(w, tag)
        log0 == <<GetBlockReq(tag)>>
    IN  IF resp.kind = "err"
        THEN [ok |-> FALSE, err |-> "Failed to fetch block", log |-> log0]
        ELSE IF resp.kind = "not_found"
        THEN [ok |-> FALSE, err |-> "Block not found", log |-> log0]
        ELSE LET f == FetchTxs(w, resp.hashes, <<>>, log0) IN
             IF ~f.ok
             THEN [ok |-> FALSE, err |-> "Failed to fetch transaction", log |-> f.log]
             ELSE IF Len(f.txs) # Len(resp.hashes)
             THEN [ok |-> FALSE, err |-> "Transaction count mismatch", log |-> f.log]
             ELSE [ok |-> TRUE, header |-> resp.header, txs |-> f.txs, log |-> f.log]

GetPayloadStrictGate(w, a, tag) ==
    LET r == GetBlock(w, tag) IN
    IF ~r.ok THEN r
    ELSE [ok |-> TRUE, log |-> r.log,
          payload |->
            [timestamp |-> r.header.timestamp,
             prev_randao |-> UnwrapOr(r.header.mix_hash, ZeroHash),
             fee_recipient |-> r.header.miner,
             withdrawals |-> IF r.header.timestamp > a THEN Some(<<>>) ELSE None,
             parent_beacon_block_root |-> r.header.parent_beacon_block_root,
             transactions |-> r.txs,
             no_tx_pool |-> TRUE,
             gas_limit |-> Some(AsU64(r.header.gas_limit))]]

\* TrustedValidator::get_payload; a is self.canyon_activation
GetPayload(w, a, tag) ==
    LET r == GetBlock(w, tag) IN
    IF ~r.ok THEN r
    ELSE [ok |-> TRUE, log |-> r.log,
          payload |->
            [timestamp |-> r.header.timestamp,
             prev_randao |-> UnwrapOr(r.header.mix_hash, ZeroHash),
             fee_recipient |-> r.header.miner,
             withdrawals |-> IF r.header.timestamp >= a THEN Some(<<>>) ELSE None,
             parent_beacon_block_root |-> r.header.parent_beacon_block_root,
             transactions |-> r.txs,
             no_tx_pool |-> TRUE,
             gas_limit |-> Some(AsU64(r.header.gas_limit))]]

ValidateRequestsParent(w, a, arg) ==
    LET expected == arg.parent_number
        r == GetPayload(w, a, NumTag(expected))
    IN  IF r.ok
        THEN [ok |-> TRUE, value |-> (arg.attributes = r.payload), log |-> r.log]
        ELSE [ok |-> FALSE, err |-> "Failed to fetch payload for block",
              cause |-> r.err, log |-> r.log]

ValidateCoercesError(w, a, arg) ==
    LET expected == arg.parent_number + 1
        r == GetPayload(w, a, NumTag(expected))
    IN  IF r.ok
        THEN [ok |-> TRUE, value |-> (arg.attributes = r.payload), log |-> r.log]
        ELSE [ok |-> TRUE, value |-> FALSE, log |-> r.log]

\* <TrustedValidator as AttributesValidator>::validate
Validate(w, a, arg) ==
    LET expected == arg.parent_number + 1
        r == GetPayload(w, a, NumTag(expected))
    IN  IF r.ok
        THEN [ok |-> TRUE, value |-> (arg.attributes = r.payload), log |-> r.log]
        ELSE [ok |-> FALSE, err |-> "Failed to fetch payload for block",
              cause |-> r.err, log |-> r.log]

\* The validator keeps no state between calls: a run is one call.
\* validator.get_block(tag)
CallGetBlock ==
    /\ tvOut.op = "none"
    /\ \E tag \in {NumTag(tvArg.parent_number + 1), LatestTag} :
         LET r == GetBlock(rpc, tag) IN
           /\ tvOut' = [op |-> "get_block", tag |-> tag, res |-> r]
           /\ rpcLog' = r.log
    /\ UNCHANGED <<canyon, rpc, tvArg>>
    /\ UNCHANGED <<driverVars, builderVars, engineVars>>

\* validator.get_payload(tag)
CallGetPayload ==
    /\ tvOut.op = "none"
    /\ \E tag \in {NumTag(tvArg.parent_number + 1), LatestTag} :
         LET r == GetPayload(rpc, canyon, tag) IN
           /\ tvOut' = [op |-> "get_payload", tag |-> tag, res |-> r]
           /\ rpcLog' = r.log
    /\ UNCHANGED <<canyon, rpc, tvArg>>
    /\ UNCHANGED <<driverVars, builderVars, engineVars>>

\* validator.validate(&attributes)
CallValidate ==
    /\ tvOut.op = "none"
    /\ LET r == Validate(rpc, canyon, tvArg) IN
         /\ tvOut' = [op |-> "validate", tag |-> NumTag(tvArg.parent_number + 1),
                      res |-> r]
         /\ rpcLog' = r.log
    /\ UNCHANGED <<canyon, rpc, tvArg>>
    /\ UNCHANGED <<driverVars, builderVars, engineVars>>

\* -------------------------------------------------- EngineApiValidator
\* serde_json::Value
JStr(x) == [t |-> "str", s |-> x]
JNum(x) == [t |-> "num", n |-> x]
JNull == [t |-> "null"]
JObj(fields) == [t |-> "obj", f |-> fields]
JArr(items) == [t |-> "arr", a |-> items]

\* Value::pointer with the reference tokens of "/result/status": an object is
\* entered by key; an array only by a decimal index, which neither token is.
RECURSIVE Pointer(_, _)
Pointer(v, tokens) ==
    IF tokens = <<>> THEN Some(v)
    ELSE IF v.t = "obj" /\ Head(tokens) \in DOMAIN v.f
    THEN Pointer(v.f[Head(tokens)], Tail(tokens))
    ELSE None

\* Value::as_str
AsStr(v) == IF v.t = "str" THEN Some(v.s) ELSE None

\* <EngineApiValidator as AttributesValidator>::validate against endpoint env:
\*   jwt_secret.encode(&claims)?   client.post(..).send().await?
\*   response.status()   response.json().await?   match status { OK => .., _ => bail }
EngineValidateBailsOnNonValid(env) ==
    IF ~env.jwtOk THEN [ok |-> FALSE, err |-> "jwt", sent |-> 0]
    ELSE IF ~env.sendOk THEN [ok |-> FALSE, err |-> "send", sent |-> 1]
    ELSE IF ~env.body.wellformed THEN [ok |-> FALSE, err |-> "json", sent |-> 1]
    ELSE IF env.http = 200
              /\ LET st == Pointer(env.body.json, <<"result", "status">>) IN
                   st.some /\ AsStr(st.v).some /\ AsStr(st.v).v = "VALID"
    THEN [ok |-> TRUE, value |-> TRUE, sent |-> 1]
    ELSE [ok |-> FALSE, err |-> "Engine API returned status", sent |-> 1]

EngineValidateIgnoresHttpStatus(env) ==
    IF ~env.jwtOk THEN [ok |-> FALSE, err |-> "jwt", sent |-> 0]
    ELSE IF ~env.sendOk THEN [ok |-> FALSE, err |-> "send", sent |-> 1]
    ELSE IF ~env.body.wellformed THEN [ok |-> FALSE, err |-> "json", sent |-> 1]
    ELSE LET st == Pointer(env.body.json, <<"result", "status">>) IN
         [ok |-> TRUE, sent |-> 1,
          value |-> IF st.some /\ AsStr(st.v).some THEN AsStr(st.v).v = "VALID" ELSE FALSE]

EngineValidateFn(env) ==
    IF ~env.jwtOk THEN [ok |-> FALSE, err |-> "jwt", sent |-> 0]
    ELSE IF ~env.sendOk THEN [ok |-> FALSE, err |-> "send", sent |-> 1]
    ELSE IF ~env.body.wellformed THEN [ok |-> FALSE, err |-> "json", sent |-> 1]
    ELSE IF env.http = 200
    THEN LET st == Pointer(env.body.json, <<"result", "status">>) IN
         \* .and_then(as_str).map_or(false, |status| status == "VALID")
         [ok |-> TRUE, sent |-> 1,
          value |-> IF st.some /\ AsStr(st.v).some THEN AsStr(st.v).v = "VALID" ELSE FALSE]
    ELSE [ok |-> FALSE, err |-> "Engine API returned status", sent |-> 1]

\* validator.validate(&attributes); the validator keeps no state between calls.
CallEngineValidate ==
    /\ engOut = [called |-> FALSE]
    /\ LET r == EngineValidateFn(engEnv) IN
         /\ engOut' = [called |-> TRUE, res |-> r]
         /\ httpSent' = r.sent
    /\ UNCHANGED engEnv
    /\ UNCHANGED <<driverVars, builderVars, trustedVars>>

\* ------------------------------------------------------ idle components
BuilderIdle ==
    /\ builder = "idle"
    /\ buildResult = "idle"
    /\ builtFrom = "idle"
    /\ nSetters = 0
    /\ nBuilds = 0

TrustedIdle ==
    /\ canyon = 0
    /\ rpc = "idle"
    /\ tvArg = "idle"
    /\ tvOut = [op |-> "idle"]
    /\ rpcLog = <<>>

EngineIdle ==
    /\ engEnv = "idle"
    /\ engOut = [called |-> FALSE, idle |-> TRUE]
    /\ httpSent = 0

DriverIdle ==
    /\ pc = "idle"
    /\ startResult = "none"
    /\ calls = <<>>
    /\ discClosed = FALSE
    /\ peerQ = <<>>
    /\ evQ = <<>>
    /\ sentPeers = <<>>
    /\ arrived = <<>>
    /\ serviced = <<>>
    /\ lastOp = [op |-> "none", arg |-> None, ok |-> TRUE, both |-> FALSE,
                 status |-> "none"]
    /\ audit = FALSE
    /\ driver = "idle"
    /\ lastSigner = "idle"
    /\ forwarded = <<>>

\* ------------------------------------------------- driver specifications
\* The driver as NetworkDriverBuilder::build returned it, before start().
DriverBuilt(a) ==
    /\ pc = "built"
    /\ startResult = "none"
    /\ calls = <<>>
    /\ discClosed = FALSE
    /\ peerQ = <<>>
    /\ evQ = <<>>
    /\ sentPeers = <<>>
    /\ arrived = <<>>
    /\ serviced = <<>>
    /\ lastOp = [op |-> "none", arg |-> None, ok |-> TRUE, both |-> FALSE,
                 status |-> "none"]
    /\ audit = a
    /\ forwarded = <<>>

\* The driver is the one build() returns for a builder with its three required
\* fields set, the signer being one of the given ones.
DriverFrom(signers) ==
    \E s \in signers :
      /\ driver = BuildFn(With(NewBuilderAllSet, "unsafe_block_signer", s)).result.driver
      /\ lastSigner = s

Init ==
    /\ DriverBuilt(TRUE) /\ DriverFrom({"0xA"})
    /\ BuilderIdle /\ TrustedIdle /\ EngineIdle

Next ==
    \/ Start
    \/ PeerDiscovered
    \/ DiscoveryClosed
    \/ GossipArrives
    \/ SelectPeer
    \/ SelectEvent

Spec == Init /\ [][Next]_vars

\* The same driver without the audit logs, so that peers and events may keep
\* arriving for ever.  tokio's select! polls its branches in a random order on
\* every iteration, so a branch that stays ready is taken eventually.
LiveInit ==
    /\ DriverBuilt(FALSE) /\ DriverFrom({"0xA"})
    /\ BuilderIdle /\ TrustedIdle /\ EngineIdle

\* The driver and the host that rotates the signer, with the richer swarm
\* events and without discovery traffic.
InitGossip ==
    /\ DriverBuilt(TRUE) /\ DriverFrom(Addresses)
    /\ BuilderIdle /\ TrustedIdle /\ EngineIdle

NextGossip ==
    \/ Start
    \/ SignerUpdate
    \/ MessageArrives
    \/ SelectEvent

SpecGossip == InitGossip /\ [][NextGossip]_vars

\* The whole loop, peers and the richer swarm events together, without the
\* audit logs.
NextLoop ==
    \/ Start
    \/ PeerDiscovered
    \/ DiscoveryClosed
    \/ MessageArrives
    \/ SelectPeer
    \/ SelectEvent

SpecLoop == LiveInit /\ [][NextLoop]_vars

LiveSpec ==
    /\ LiveInit
    /\ [][Next]_vars
    /\ WF_vars(SelectPeer)
    /\ WF_vars(SelectEvent)
\* ------------------------------------------------ builder specification
InitBuilder ==
    /\ builder = NewBuilder
    /\ buildResult = "none"
    /\ builtFrom = "none"
    /\ nSetters = 0
    /\ nBuilds = 0
    /\ DriverIdle /\ TrustedIdle /\ EngineIdle

NextBuilder == CallWith \/ CallBuild

SpecBuilder == InitBuilder /\ [][NextBuilder]_vars

\* ------------------------------------------------ trusted specification
\* The worlds a call may run in.
RECURSIVE SeqsUpTo(_, _)
SeqsUpTo(S, n) ==
    IF n = 0 THEN {<<>>}
    ELSE LET shorter == SeqsUpTo(S, n - 1) IN
         shorter \cup {Append(q, x) : q \in shorter, x \in S}

Headers ==
    [timestamp : 0..MaxTime,
     mix_hash : {None, Some(7)},
     miner : {"0xF1"},
     parent_beacon_block_root : {None, Some(5)},
     gas_limit : {3, 3 + U64Modulus}]

BlockResps ==
    {[kind |-> "err"], [kind |-> "not_found"]}
      \cup {[kind |-> "block", header |-> h, hashes |-> hs] :
              h \in Headers, hs \in SeqsUpTo(TxHashes, MaxTxs)}

\* Every block other than the one under test: no transactions, its own miner.
OtherBlock(tag) ==
    [kind |-> "block",
     header |-> [timestamp |-> 0, mix_hash |-> None,
                 miner |-> IF tag.kind = "latest" THEN "0xD1" ELSE "0xD0",
                 parent_beacon_block_root |-> None, gas_limit |-> 3],
     hashes |-> <<>>]

RawWorlds ==
    {[h \in TxHashes |-> IF h \in failing THEN [ok |-> FALSE]
                         ELSE [ok |-> TRUE, rlp |-> RlpOf(h)]] :
       failing \in SUBSET TxHashes}

\* The attributes a block's header and raw transactions stand for.
AttrsOf(resp, a) ==
    [timestamp |-> resp.header.timestamp,
     prev_randao |-> IF resp.header.mix_hash.some THEN resp.header.mix_hash.v ELSE 0,
     fee_recipient |-> resp.header.miner,
     withdrawals |-> IF resp.header.timestamp < a THEN None ELSE Some(<<>>),
     parent_beacon_block_root |-> resp.header.parent_beacon_block_root,
     transactions |-> [i \in DOMAIN resp.hashes |-> RlpOf(resp.hashes[i])],
     no_tx_pool |-> TRUE,
     gas_limit |-> Some(resp.header.gas_limit % U64Modulus)]

Reverse(q) == [i \in DOMAIN q |-> q[Len(q) + 1 - i]]

\* x and every way to change one field of x.
OneFieldChanged(x) ==
    {x,
     [x EXCEPT !.timestamp = @ + 1],
     [x EXCEPT !.prev_randao = @ + 1],
     [x EXCEPT !.fee_recipient = "0xEE"],
     [x EXCEPT !.withdrawals = IF @.some THEN None ELSE Some(<<>>)],
     [x EXCEPT !.withdrawals = Some(<<"w">>)],
     [x EXCEPT !.parent_beacon_block_root = IF @.some THEN None ELSE Some(5)],
     [x EXCEPT !.transactions = IF @ = <<>> THEN <<RlpOf(1)>> ELSE SubSeq(@, 1, Len(@) - 1)],
     [x EXCEPT !.transactions = Reverse(@)],
     [x EXCEPT !.no_tx_pool = FALSE],
     [x EXCEPT !.gas_limit = None],
     [x EXCEPT !.gas_limit = Some(@.v + 1)]}

\* The attributes put under validation: those of the block under test, of the
\* parent block or of the latest block, with at most one field changed.
Candidates(target, n, a) ==
    OneFieldChanged(AttrsOf(IF target.kind = "block" THEN target ELSE OtherBlock(NumTag(n)), a))
      \cup {AttrsOf(OtherBlock(NumTag(n)), a), AttrsOf(OtherBlock(LatestTag), a)}

InitTrusted ==
    /\ canyon \in 1..MaxTime
    /\ \E n \in ParentNumbers, target \in BlockResps :
         /\ \E raw \in RawWorlds :
              rpc = [block |-> [t \in Tags |-> IF t = NumTag(n + 1) THEN target
                                               ELSE OtherBlock(t)],
                     raw   |-> raw]
         /\ \E attrs \in Candidates(target, n, canyon) :
              tvArg = [parent_number |-> n, attributes |-> attrs]
    /\ tvOut = [op |-> "none"]
    /\ rpcLog = <<>>
    /\ DriverIdle /\ BuilderIdle /\ EngineIdle

NextTrusted == CallGetBlock \/ CallGetPayload \/ CallValidate

SpecTrusted == InitTrusted /\ [][NextTrusted]_vars

\* ------------------------------------------------- engine specification
StatusValues ==
    {JStr("VALID"), JStr("valid"), JStr("Valid"), JStr("INVALID"), JStr("SYNCING"),
     JStr("ACCEPTED"), JStr(""), JNum(1), JNull}

Bodies ==
    {[wellformed |-> FALSE]}
      \cup {[wellformed |-> TRUE, json |-> j] :
              j \in {JObj([jsonrpc |-> JStr("2.0"), id |-> JNum(1),
                           result |-> JObj([status |-> st])]) : st \in StatusValues}
                    \cup {JObj([result |-> JObj([latestValidHash |-> JStr("0x00")])]),
                          JObj([result |-> JStr("VALID")]),
                          JObj([result |-> JArr(<<JStr("VALID")>>)]),
                          JObj([result |-> JNull]),
                          JObj([error |-> JObj([code |-> JNum(1),
                                                message |-> JStr("VALID")])]),
                          JObj([status |-> JStr("VALID")]),
                          JStr("VALID"),
                          JArr(<<JObj([result |-> JObj([status |-> JStr("VALID")])])>>),
                          JNull}}

HttpStatuses == {200, 201, 400, 401, 500}

InitEngine ==
    /\ engEnv \in [jwtOk : BOOLEAN, sendOk : BOOLEAN, http : HttpStatuses, body : Bodies]
    /\ engOut = [called |-> FALSE]
    /\ httpSent = 0
    /\ DriverIdle /\ BuilderIdle /\ TrustedIdle

NextEngine == CallEngineValidate

SpecEngine == InitEngine /\ [][NextEngine]_vars

\* Either validator, whichever the host constructed, making one call.
InitValidators == InitTrusted \/ InitEngine

NextValidators == NextTrusted \/ NextEngine

SpecValidators == InitValidators /\ [][NextValidators]_vars

\* ------------------------------------------------------- driver claims
Range(s) == {s[i] : i \in DOMAIN s}

\* The arguments of the serviced operations named op, in order.
RECURSIVE ArgsOf(_, _)
ArgsOf(log, op) ==
    IF log = <<>> THEN <<>>
    ELSE IF Head(log).op = op THEN <<Head(log).arg>> \o ArgsOf(Tail(log), op)
    ELSE ArgsOf(Tail(log), op)

\* C1: start() is two-phase and fail-fast.  A discovery failure is returned
\* with nothing else attempted; a listen failure is returned after a
\* successful discovery start and without a spawn; the loop runs, and a peer is
\* dialed or an event handled, only after discovery start and then gossip
\* listen both succeeded.
C1_StartTwoPhaseFailFast ==
    /\ startResult = "discovery_err" =>
         calls = <<DiscoveryStart(FALSE)>> /\ pc = "failed"
    /\ startResult = "listen_err" =>
         calls = <<DiscoveryStart(TRUE), GossipListen(FALSE)>> /\ pc = "failed"
    /\ SpawnLoop \in Range(calls) <=> pc = "running"
    /\ pc = "running" =>
         /\ calls = <<DiscoveryStart(TRUE), GossipListen(TRUE), SpawnLoop>>
         /\ startResult = "ok"
    /\ (serviced # <<>> \/ lastOp.op # "none" \/ peerQ # <<>> \/ evQ # <<>>) =>
         /\ pc = "running"
         /\ SubSeq(calls, 1, 2) = <<DiscoveryStart(TRUE), GossipListen(TRUE)>>

C1_Witness_ListenFailed ==
    /\ startResult = "listen_err"
    /\ calls = <<DiscoveryStart(TRUE), GossipListen(FALSE)>>

\* C2: every item the loop takes from an input is serviced exactly once by the
\* matching operation: the peers ever sent are exactly the peers dialed, in
\* order, followed by those still buffered, and likewise the events; nothing is
\* lost or serviced twice, also when both inputs were ready at the select.
C2_EachItemServicedOnce ==
    /\ sentPeers = ArgsOf(serviced, "dial_opt") \o peerQ
    /\ arrived = ArgsOf(serviced, "handle_event") \o evQ
    /\ \A i \in DOMAIN serviced :
         \/ serviced[i].op = "dial_opt" /\ serviced[i].arg \in Peers
         \/ serviced[i].op = "handle_event" /\ serviced[i].arg \in Events

C2_Witness_BothReady ==
    /\ lastOp.both
    /\ lastOp.op = "dial_opt"
    /\ lastOp.arg.some
    /\ evQ # <<>>
    /\ Len(serviced) >= 2

\* C3: neither input starves the other: a buffered gossip event is eventually
\* handled and a buffered peer is eventually passed to dial_opt, however the
\* other input keeps producing.
C3_NoStarvation ==
    /\ \A e \in Events :
         (e \in Range(evQ)) ~> (lastOp.op = "handle_event" /\ lastOp.arg = Some(e))
    /\ \A p \in Peers :
         (p \in Range(peerQ)) ~> (lastOp.op = "dial_opt" /\ lastOp.arg = Some(p))

C3_Witness_EventPendingUnderPeerLoad ==
    /\ Len(peerQ) = MaxQueue
    /\ evQ # <<>>
    /\ lastOp.op = "dial_opt"
    /\ lastOp.both
\* ------------------------------------------------------ builder claims
Required == {"unsafe_block_signer", "chain_id", "socket"}

\* The latest build() was called with exactly the required fields in `unset` unset.
BuiltWithUnset(unset) ==
    /\ nBuilds > 0
    /\ \A f \in Required : builtFrom[f].some <=> f \notin unset

\* C4: with exactly one required field unset, build returns an error and no
\* driver, with that field's message; the three messages differ pairwise.
C4_MissingFieldMessages ==
    /\ BuiltWithUnset({"unsafe_block_signer"}) =>
         buildResult = [ok |-> FALSE, err |-> "unsafe block signer not set"]
    /\ BuiltWithUnset({"chain_id"}) =>
         buildResult = [ok |-> FALSE, err |-> "chain ID not set"]
    /\ BuiltWithUnset({"socket"}) =>
         buildResult = [ok |-> FALSE, err |-> "socket address not set"]
    /\ \A f \in Required, g \in Required :
         f # g => BuildFn(Take(NewBuilderAllSet, f)).result
                    # BuildFn(Take(NewBuilderAllSet, g)).result

C4_Witness_SocketMissing ==
    /\ BuiltWithUnset({"socket"})
    /\ ~buildResult.ok
\* ------------------------------------------------------ trusted claims
\* The block the attributes under validation claim to be: parent number + 1.
ExpectedTag == [kind |-> "number", n |-> tvArg.parent_number + 1]

AllFetchable(hashes) == \A i \in DOMAIN hashes : rpc.raw[hashes[i]].ok

\* The RPC holds the block and every raw transaction it lists.
Complete(tag) ==
    /\ rpc.block[tag].kind = "block"
    /\ AllFetchable(rpc.block[tag].hashes)

\* The raw transactions of a block, one per hash, in the block's hash order.
RawsInOrder(blk) == [i \in DOMAIN blk.hashes |-> rpc.raw[blk.hashes[i]].rlp]

\* attrs agrees with block blk on every field, for canyon activation a.
FieldwiseEqual(attrs, blk, a) ==
    /\ attrs.timestamp = blk.header.timestamp
    /\ attrs.prev_randao =
         (IF blk.header.mix_hash.some THEN blk.header.mix_hash.v ELSE 0)
    /\ attrs.fee_recipient = blk.header.miner
    /\ attrs.withdrawals = (IF blk.header.timestamp >= a THEN Some(<<>>) ELSE None)
    /\ attrs.parent_beacon_block_root = blk.header.parent_beacon_block_root
    /\ attrs.transactions = RawsInOrder(blk)
    /\ attrs.no_tx_pool = TRUE
    /\ attrs.gas_limit.some
    /\ attrs.gas_limit.v = blk.header.gas_limit % U64Modulus

C8_NoShortTransactionList ==
    tvOut.op # "none" =>
      LET blk == rpc.block[tvOut.tag] IN
        /\ tvOut.res.ok =>
             /\ Complete(tvOut.tag)
             /\ tvOut.op = "get_block" => tvOut.res.txs = RawsInOrder(blk)
             /\ tvOut.op = "get_payload" =>
                  tvOut.res.payload.transactions = RawsInOrder(blk)
        /\ (blk.kind = "block" /\ ~AllFetchable(blk.hashes)) => ~tvOut.res.ok

C8_Witness_SecondOfTwoUnfetchable ==
    /\ tvOut.op = "get_payload"
    /\ rpc.block[tvOut.tag].kind = "block"
    /\ Len(rpc.block[tvOut.tag].hashes) = 2
    /\ rpc.raw[rpc.block[tvOut.tag].hashes[1]].ok
    /\ ~rpc.raw[rpc.block[tvOut.tag].hashes[2]].ok
    /\ ~tvOut.res.ok

\* C9: validate returns an error, never Ok(true) or Ok(false), when the block
\* fetch errors, the block is not found or a raw transaction fetch fails; it
\* returns Ok(false) only when block and transactions were all fetched and the
\* reconstructed attributes differ from the supplied ones.
C9_ErrorIsNotInvalid ==
    tvOut.op = "validate" =>
      /\ ~Complete(ExpectedTag) => ~tvOut.res.ok
      /\ (tvOut.res.ok /\ ~tvOut.res.value) =>
           /\ Complete(ExpectedTag)
           /\ ~FieldwiseEqual(tvArg.attributes, rpc.block[ExpectedTag], canyon)

C9_Witness_BlockNotFound ==
    /\ tvOut.op = "validate"
    /\ rpc.block[ExpectedTag].kind = "not_found"
    /\ ~tvOut.res.ok

\* C10: in attributes get_payload reconstructs, withdrawals is absent when the
\* header timestamp is below the canyon activation timestamp and present and
\* empty when it is at or above it; it never has contents.
C10_WithdrawalsGate ==
    (tvOut.op = "get_payload" /\ tvOut.res.ok) =>
      LET t == rpc.block[tvOut.tag].header.timestamp
          wd == tvOut.res.payload.withdrawals
      IN  /\ t < canyon => wd = None
          /\ t >= canyon => wd = Some(<<>>)
          /\ wd.some => wd.v = <<>>

C10_Witness_AtActivation ==
    /\ tvOut.op = "get_payload"
    /\ tvOut.res.ok
    /\ rpc.block[tvOut.tag].header.timestamp = canyon
    /\ tvOut.res.payload.withdrawals = Some(<<>>)
\* ------------------------------------------------------- engine claims
\* The endpoint answered: the token was made, the request sent, a response
\* with a well-formed JSON body received.
Answered == engEnv.jwtOk /\ engEnv.sendOk /\ engEnv.body.wellformed

\* The string at result.status of the response body, if there is one.
StatusString ==
    LET j == engEnv.body.json IN
    IF j.t = "obj" /\ "result" \in DOMAIN j.f
    THEN LET r == j.f.result IN
         IF r.t = "obj" /\ "status" \in DOMAIN r.f
         THEN LET st == r.f.status IN
              IF st.t = "str" THEN Some(st.s) ELSE None
         ELSE None
    ELSE None

\* HTTP success with a well-formed body whose result.status is a string other
\* than "VALID" or is no string at all.
SuccessButNotValid(codes) ==
    /\ Answered
    /\ engEnv.http \in codes
    /\ StatusString # Some("VALID")

\* C6 as stated: on HTTP success with a status other than "VALID", or without a
\* result.status string, validate returns an error and not false.
C6_Original_NonValidIsError ==
    (engOut.called /\ SuccessButNotValid({200, 201})) => ~engOut.res.ok

\* C6 as amended: on HTTP 200 with a well-formed body whose result.status is
\* another string than "VALID" or is missing, validate returns Ok(false); it is
\* not an error.
C6_NonValidIsFalse ==
    (engOut.called /\ SuccessButNotValid({200})) =>
       /\ engOut.res.ok
       /\ engOut.res.value = FALSE

C6_Witness_InvalidStatus ==
    /\ engOut.called
    /\ SuccessButNotValid({200})
    /\ StatusString = Some("INVALID")
    /\ engOut.res.ok

\* C7: validate returns true exactly when the response is HTTP 200 and its
\* result.status is the string "VALID", compared case-sensitively; on any other
\* HTTP status it returns an error, whatever the body.
C7_TrueOnlyOn200Valid ==
    engOut.called =>
      /\ (engOut.res.ok /\ engOut.res.value) <=>
           (Answered /\ engEnv.http = 200 /\ StatusString = Some("VALID"))
      /\ engEnv.http # 200 => ~engOut.res.ok

C7_Witness_Non200WithValidBody ==
    /\ engOut.called
    /\ Answered
    /\ engEnv.http = 500
    /\ StatusString = Some("VALID")
    /\ ~engOut.res.ok

\* --------------------------------------------------- gossip validation
\* A message the handler of chain 10 can decode: it came on one of the three
\* block topics of the chain and its header and body are well formed.
Decodable(m) ==
    /\ m.kind = "message"
    /\ m.wellformed
    /\ m.topic \in {"/optimism/10/0/blocks", "/optimism/10/1/blocks",
                     "/optimism/10/2/blocks"}

\* The handle_event entries of the servicing log whose verdict is st.
Verdicts(st) ==
    SelectSeq(serviced, LAMBDA e : e.op = "handle_event" /\ e.status = st)

\* C11: a gossip message is accepted (its envelope is placed on the
\* unsafe-block channel) only if its recovered signer equals the signer most
\* recently written to the signer cell at the moment the message is handled: a
\* decodable message signed by that signer is accepted, the same message
\* signed by another key is rejected, and every message is validated once,
\* when it is taken, against the signer current at that time.
C11_AcceptedOnlyIfSignedByCurrentSigner ==
    [][SelectEvent =>
         LET m == Head(evQ)
             verdict == serviced'[Len(serviced')].status
         IN  /\ evQ' = Tail(evQ)
             /\ Len(serviced') = Len(serviced) + 1
             /\ serviced'[Len(serviced')].arg = m
             /\ verdict = "accept" <=> Len(forwarded') = Len(forwarded) + 1
             /\ verdict # "accept" => forwarded' = forwarded
             /\ verdict = "accept" => m.kind = "message" /\ m.signer = lastSigner
             /\ (Decodable(m) /\ m.signer = lastSigner) => verdict = "accept"
             /\ (m.kind = "message" /\ m.signer # lastSigner) => verdict = "reject"
      ]_vars

\* A block signed by 0xA was accepted and, the signer having been rotated to
\* 0xB, a later decodable block signed by 0xA was rejected.
C11_Witness_OldSignerRejectedAfterRotation ==
    /\ lastSigner = "0xB"
    /\ \E i, j \in DOMAIN serviced :
         /\ i < j
         /\ serviced[i].status = "accept" /\ serviced[i].arg.signer = "0xA"
         /\ serviced[j].status = "reject" /\ serviced[j].arg.signer = "0xA"
         /\ Decodable(serviced[j].arg)

\* The value a handler reads from the signer cell its receiver refers to.
SignerSeenBy(h) == driver.signer_cells[h.unsafe_signer_recv]

\* C12: the signer cell holds exactly one signer at every instant: the signer
\* the builder was given until the first update, and afterwards the signer of
\* the latest update; the handler held by the gossip behaviour and the handler
\* held by the GossipDriver refer to that one cell, so both read the signer
\* most recently written.
C12_OneSharedSignerCell ==
    /\ lastSigner \in Addresses
    /\ driver.signer_cells[driver.unsafe_block_signer_sender] = lastSigner
    /\ driver.gossip.handler.unsafe_signer_recv = driver.unsafe_block_signer_sender
    /\ SignerSeenBy(driver.gossip.handler) = lastSigner
    /\ Len(driver.gossip.behaviour_handlers) = 1
    /\ \A i \in DOMAIN driver.gossip.behaviour_handlers :
         /\ driver.gossip.behaviour_handlers[i].unsafe_signer_recv
              = driver.unsafe_block_signer_sender
         /\ SignerSeenBy(driver.gossip.behaviour_handlers[i]) = lastSigner

\* Blocks signed by 0xA and by 0xB have both been accepted, so the cell has
\* been written in between, and both handlers read 0xB now.
C12_Witness_BothHandlersSeeRotation ==
    /\ \E i, j \in DOMAIN serviced :
         /\ i < j
         /\ serviced[i].status = "accept" /\ serviced[i].arg.signer = "0xA"
         /\ serviced[j].status = "accept" /\ serviced[j].arg.signer = "0xB"
    /\ SignerSeenBy(driver.gossip.handler) = "0xB"
    /\ SignerSeenBy(driver.gossip.behaviour_handlers[1]) = "0xB"

\* The envelopes of one topic version, in the order given.
OfVersion(envelopes, v) == SelectSeq(envelopes, LAMBDA env : env.version = v)

\* The envelope an accepted message decodes to.
EnvelopeOf(m) ==
    [version |-> CHOOSE v \in {0, 1, 2} :
                   m.topic = "/optimism/10/" \o ToString(v) \o "/blocks",
     id |-> m.id]

\* C13: the swarm events are handled in the order they arrived, and for each
\* topic version the envelopes placed on the unsafe-block channel are exactly
\* the accepted messages of that version in that order: one envelope per
\* accepted message, none for a rejected one, none reordered or duplicated.
C13_EnvelopesFollowAcceptedMessages ==
    LET handled == ArgsOf(serviced, "handle_event")
        accepted == Verdicts("accept")
        envs == [i \in DOMAIN accepted |-> EnvelopeOf(accepted[i].arg)]
    IN  /\ Len(handled) <= Len(arrived)
        /\ handled = SubSeq(arrived, 1, Len(handled))
        /\ Len(forwarded) = Len(accepted)
        /\ \A v \in {0, 1, 2} : OfVersion(forwarded, v) = OfVersion(envs, v)

\* Two blocks of topic version 0 were forwarded in their arrival order with a
\* rejected message handled between them.
C13_Witness_TwoOfOneVersionAroundARejection ==
    /\ Len(serviced) = 3
    /\ serviced[1].status = "accept" /\ serviced[1].arg.id = 1
    /\ serviced[2].status = "reject"
    /\ serviced[3].status = "accept" /\ serviced[3].arg.id = 2
    /\ forwarded = <<[version |-> 0, id |-> 1], [version |-> 0, id |-> 2]>>

\* ------------------------------------------------ the loop without peers
\* C14: when recv() yields no peer, dial_opt dials nothing and neither blocks
\* nor fails: the iteration changes nothing but the loop's record of it, the
\* loop is still running afterwards, and every swarm event that is ready once
\* the discovery channel has closed is eventually handled.
C14_NoPeerIsANoOp ==
    /\ [][(SelectPeer /\ ~Recv.some) =>
            /\ pc' = "running"
            /\ lastOp'.op = "dial_opt" /\ ~lastOp'.arg.some /\ lastOp'.ok
            /\ DialOpt(Recv, serviced) = serviced
            /\ UNCHANGED <<peerQ, evQ, serviced, forwarded, driver, discClosed>>
         ]_vars
    /\ \A e \in Events :
         (discClosed /\ e \in Range(evQ))
           ~> (lastOp.op = "handle_event" /\ lastOp.arg = Some(e))

\* The discovery channel is closed and drained, the loop has just run
\* dial_opt(None), and an event is waiting.
C14_Witness_EventWaitsAfterClose ==
    /\ pc = "running"
    /\ discClosed /\ peerQ = <<>>
    /\ lastOp.op = "dial_opt" /\ ~lastOp.arg.some
    /\ evQ # <<>>

\* ------------------------------------------------- the loop keeps running
\* C15: once running, the loop stays running: no step of the loop or of its
\* inputs (a dial that fails, a message the handler rejects for its signer,
\* its payload or its topic, the closing of the discovery channel) takes it out
\* of the running state or changes the handler, and while an input is ready
\* the loop can take its next step.
C15_LoopNeverStopsItself ==
    /\ [][pc = "running" =>
            /\ pc' = "running"
            /\ driver' = driver
            /\ lastSigner' = lastSigner
         ]_vars
    /\ []((pc = "running" /\ (PeerReady \/ EventReady))
            => ENABLED (SelectPeer \/ SelectEvent))

\* The discovery channel has closed, a dial has just failed, and the loop is
\* running with a message the handler will reject ready for it.
C15_Witness_RunningAfterFailedDial ==
    /\ pc = "running"
    /\ lastOp.op = "dial_opt" /\ lastOp.arg.some /\ ~lastOp.ok
    /\ discClosed
    /\ evQ # <<>> /\ ~Decodable(Head(evQ))

\* C19: the loop takes a step only when an input has produced something:
\* every iteration it has run was given a peer or an event to service.
C19_EveryIterationServicesAnItem ==
    lastOp.op # "none" => lastOp.arg.some

\* ------------------------------------------------------ the built driver
\* The driver is wired from the values the builder was given: the gossip listen
\* address is /ip4/<ip>/tcp/<port> of the socket, and the discovery driver and
\* the block handler hold the chain ID.
WiredFrom(b, d) ==
    /\ d.gossip.addr = <<[proto |-> "ip4", v |-> b.socket.v.ip],
                         [proto |-> "tcp", v |-> b.socket.v.port]>>
    /\ d.discovery.chain_id = b.chain_id.v
    /\ d.gossip.handler.chain_id = b.chain_id.v

TopicsOfChain ==
    [c \in ChainIds |->
       IF c = 1
       THEN <<"/optimism/1/0/blocks", "/optimism/1/1/blocks", "/optimism/1/2/blocks">>
       ELSE <<"/optimism/10/0/blocks", "/optimism/10/1/blocks", "/optimism/10/2/blocks">>]

\* C17: the v1, v2 and v3 block topics of the handler of a built driver are
\* /optimism/c/0/blocks, /optimism/c/1/blocks and /optimism/c/2/blocks for the
\* chain ID c the builder was given, whatever its other fields; the three are
\* pairwise distinct and no topic of one chain is a topic of another.
C17_TopicsOfChainAndVersion ==
    /\ (nBuilds > 0 /\ buildResult.ok) =>
         LET h == buildResult.driver.gossip.handler
             t == TopicsOfChain[builtFrom.chain_id.v]
         IN  /\ h.blocks_v1_topic = t[1]
             /\ h.blocks_v2_topic = t[2]
             /\ h.blocks_v3_topic = t[3]
             /\ Cardinality({h.blocks_v1_topic, h.blocks_v2_topic, h.blocks_v3_topic}) = 3
             /\ \A c \in ChainIds \ {builtFrom.chain_id.v} :
                  {h.blocks_v1_topic, h.blocks_v2_topic, h.blocks_v3_topic}
                    \cap Range(TopicsOfChain[c]) = {}
    /\ \A c \in ChainIds, d \in ChainIds, v \in {0, 1, 2}, w \in {0, 1, 2} :
         BlocksTopic(c, v) = BlocksTopic(d, w) => (c = d /\ v = w)

\* A driver built for chain 1 holds the v3 topic of chain 1.
C17_Witness_TopicsOfChainOne ==
    /\ nBuilds > 0 /\ buildResult.ok
    /\ builtFrom.chain_id.v = 1
    /\ buildResult.driver.gossip.handler.blocks_v3_topic = "/optimism/1/2/blocks"

\* The message of the first required field that is unset, in the order signer,
\* chain ID, socket.
FirstMissing(b) ==
    IF ~b.unsafe_block_signer.some THEN "unsafe block signer not set"
    ELSE IF ~b.chain_id.some THEN "chain ID not set"
    ELSE "socket address not set"

\* C18: with several required fields unset, build reports exactly one error,
\* that of the first unset field in the order signer, chain ID, socket: nothing
\* set gives the signer message, only the signer set gives the chain ID
\* message, signer and chain ID set without a socket gives the socket message.
C18_FirstMissingFieldReported ==
    /\ BuiltWithUnset(Required) =>
         buildResult = [ok |-> FALSE, err |-> "unsafe block signer not set"]
    /\ BuiltWithUnset({"chain_id", "socket"}) =>
         buildResult = [ok |-> FALSE, err |-> "chain ID not set"]
    /\ BuiltWithUnset({"socket"}) =>
         buildResult = [ok |-> FALSE, err |-> "socket address not set"]
    /\ (nBuilds > 0 /\ \E f \in Required : ~builtFrom[f].some) =>
         buildResult = [ok |-> FALSE, err |-> FirstMissing(builtFrom)]

\* build was called with only the signer set.
C18_Witness_OnlySignerSet ==
    /\ BuiltWithUnset({"chain_id", "socket"})
    /\ buildResult.err = "chain ID not set"

\* ------------------------------------------------------------ no retries
\* C20: attribute validation never retries.  One TrustedValidator::validate
\* call sends exactly one block request, for block parent + 1, then at most one
\* raw-transaction request per hash the block lists, in the block's hash order,
\* and none after the first request that failed; one
\* EngineApiValidator::validate call sends at most one HTTP request; in both,
\* the first failure is what the call returns.
C20_ValidationNeverRetries ==
    /\ tvOut.op = "validate" =>
         LET blk == rpc.block[ExpectedTag]
             nRaw == Len(rpcLog) - 1
         IN  /\ Len(rpcLog) >= 1
             /\ rpcLog[1] = [m |-> "eth_getBlockByNumber", tag |-> ExpectedTag, hash |-> 0]
             /\ \A i \in 2..Len(rpcLog) : rpcLog[i].m = "debug_getRawTransaction"
             /\ blk.kind # "block" => (nRaw = 0 /\ ~tvOut.res.ok)
             /\ blk.kind = "block" =>
                  /\ nRaw <= Len(blk.hashes)
                  /\ \A i \in 1..nRaw : rpcLog[i + 1].hash = blk.hashes[i]
                  /\ \A i \in 1..(nRaw - 1) : rpc.raw[blk.hashes[i]].ok
                  /\ AllFetchable(blk.hashes) => nRaw = Len(blk.hashes)
                  /\ ~AllFetchable(blk.hashes) =>
                       (~rpc.raw[blk.hashes[nRaw]].ok /\ ~tvOut.res.ok)
    /\ engOut.called =>
         /\ httpSent <= 1
         /\ httpSent = (IF engEnv.jwtOk THEN 1 ELSE 0)
         /\ ~Answered => ~engOut.res.ok

\* validate stopped at the first of two transactions, which the RPC could not
\* provide: one block request and one raw-transaction request were sent.
C20_Witness_StoppedAtFirstFailure ==
    /\ tvOut.op = "validate"
    /\ rpc.block[ExpectedTag].kind = "block"
    /\ Len(rpc.block[ExpectedTag].hashes) = 2
    /\ ~rpc.raw[rpc.block[ExpectedTag].hashes[1]].ok
    /\ Len(rpcLog) = 2
    /\ ~tvOut.res.ok

\* ------------------------------------------------- build after a failure
\* C21: a build that fails because a required field is unset leaves every
\* field of the builder as it was, so that setting the unset fields and
\* building again returns what a single build of the same settings returns,
\* the custom gossip, keypair, noise, TCP and yamux configuration included.
C21_FailedBuildLeavesBuilderUnchanged ==
    [][(nBuilds' = nBuilds + 1 /\ \E f \in Required : ~builder[f].some) =>
         /\ ~buildResult'.ok
         /\ builder' = builder
         /\ \A c \in ChainIds, a \in Addresses, k \in Sockets :
              LET complete(b) ==
                    [b EXCEPT !.chain_id = IF b.chain_id.some THEN b.chain_id ELSE Some(c),
                              !.unsafe_block_signer =
                                 IF b.unsafe_block_signer.some THEN b.unsafe_block_signer
                                 ELSE Some(a),
                              !.socket = IF b.socket.some THEN b.socket ELSE Some(k)]
              IN  BuildFn(complete(builder')).result = BuildFn(complete(builder)).result
      ]_vars
====
